---- MODULE Spec2Model ----
(***************************************************************************)
(* A model of DefaultRuleManager (src/src/lib/DefaultRuleManager.ts): the  *)
(* one-time init(), the per-engine target resolution unpackTargets() and    *)
(* the fan-out / join of runRulesMatchingCriteria().                        *)
(*                                                                         *)
(* The engines, the catalog, the file system and the recombinator are the   *)
(* collaborators of the class; they are modelled by a small fixture and by  *)
(* nondeterministic answers.  globby and picomatch are modelled by what the *)
(* libraries compute on that fixture.                                       *)
(***************************************************************************)
EXTENDS Integers, Sequences, FiniteSets, TLC

\* Longest list of targets a caller passes to runRulesMatchingCriteria.
MaxTargets == 2
\* Number of init() calls made on the one orchestrator.
MaxInitCalls == 2

(***************************************************************************)
(* The injected collaborators (constructor, lines 26-32).                  *)
(***************************************************************************)
\* this.engines: the registered engines, in registration order.
engines == << [name |-> "pmd"], [name |-> "eslint"] >>

EngineIds == 1..Len(engines)

\* RuleEngine.getName()
getName(e) == engines[e].name

(***************************************************************************)
(* The catalog: what it answers for a filter list.                          *)
(***************************************************************************)
Filters == {"all", "pmdOnly", "eslintRulesAllGroups", "none"}

PmdRule == [name |-> "ApexUnitTest", engine |-> "pmd"]
EslintRule == [name |-> "no-unused-vars", engine |-> "eslint"]
PmdGroup == [name |-> "Best Practices", engine |-> "pmd"]
EslintGroup == [name |-> "problem", engine |-> "eslint"]

\* this.catalog.getRulesMatchingFilters(filters)
getRulesMatchingFilters(f) ==
    CASE f = "all" -> << PmdRule, EslintRule >>
      [] f = "pmdOnly" -> << PmdRule >>
      [] f = "eslintRulesAllGroups" -> << EslintRule >>
      [] OTHER -> << >>

\* this.catalog.getRuleGroupsMatchingFilters(filters)
getRuleGroupsMatchingFilters(f) ==
    CASE f = "all" -> << PmdGroup, EslintGroup >>
      [] f = "pmdOnly" -> << PmdGroup >>
      [] f = "eslintRulesAllGroups" -> << PmdGroup, EslintGroup >>
      [] OTHER -> << >>

(***************************************************************************)
(* The file system under the working directory /cwd:                       *)
(*     src/Foo.cls   src/Ignored.cls   src/bar.js                           *)
(* There is no file src/Gone.cls.                                          *)
(***************************************************************************)
TargetUniverse == {"src/Foo.cls", "src", "src/*.cls", "src/Gone.cls"}

\* this.fileHandler.exists(target)
exists(target) == target \in {"src/Foo.cls", "src"}

\* (await this.fileHandler.stats(target)).isDirectory()
isDirectory(target) == target = "src"

\* globby.hasMagic(target)
hasMagic(target) == target = "src/*.cls"

\* path.resolve(t): the absolute path of a path relative to the working directory
path_resolve(t) == "/cwd/" \o t

\* path.join(dir, t)
path_join(dir, t) == dir \o "/" \o t

\* The entries of a directory, as paths relative to it, in globby's order.
DirListing(dir) ==
    IF dir = "src" THEN << "Foo.cls", "Ignored.cls", "bar.js" >> ELSE << >>

\* globby(target), for a target that is a glob: paths relative to the working directory.
globbyTarget(target) ==
    IF target = "src/*.cls" THEN << "src/Foo.cls", "src/Ignored.cls" >> ELSE << >>

\* The spellings of the file with base name b: relative to src, and absolute.
Spellings(b) == {b, path_resolve(path_join("src", b))}

\* Whether the glob (without a negation mark) matches the path string.
GlobMatches(glob, str) ==
    CASE glob = "**/*.cls" -> str \in (Spellings("Foo.cls") \cup Spellings("Ignored.cls")
                                        \cup Spellings("Gone.cls"))
      [] glob = "**/*.js" -> str \in Spellings("bar.js")
      [] glob = "**/Ignored.cls" -> str \in Spellings("Ignored.cls")
      [] glob = "**/Foo.cls" -> str \in Spellings("Foo.cls")
      [] OTHER -> FALSE

(***************************************************************************)
(* Target patterns.  A pattern is its glob and whether it starts with "!". *)
(***************************************************************************)
Inc(g) == [neg |-> FALSE, glob |-> g]
Exc(g) == [neg |-> TRUE, glob |-> g]

\* p.startsWith("!")
startsWithBang(p) == p.neg

\* What engine.getTargetPatterns(target) may answer: undefined, or a list.
Undefined == [asked |-> TRUE, defined |-> FALSE, pats |-> << >>]
Defined(pats) == [asked |-> TRUE, defined |-> TRUE, pats |-> pats]
\* The engine was not asked: the list of targets is empty.
NotAsked == [asked |-> FALSE, defined |-> FALSE, pats |-> << >>]

TargetPatternAnswers(e) ==
    IF getName(e) = "pmd"
    THEN { Undefined,
           Defined(<< >>),
           Defined(<< Inc("**/*.cls") >>),
           Defined(<< Inc("**/*.cls"), Exc("**/Ignored.cls") >>),
           Defined(<< Inc("**/*.cls"), Exc("**/Ignored.cls"), Exc("**/Foo.cls") >>) }
    ELSE { Undefined,
           Defined(<< Inc("**/*.js"), Exc("**/Ignored.cls") >>) }

\* picomatch(pattern) for one pattern string: a leading "!" negates the glob.
picomatchOne(p, str) ==
    IF p.neg THEN ~GlobMatches(p.glob, str) ELSE GlobMatches(p.glob, str)

\* picomatch(patterns) for an array: the matcher accepts a string when one of
\* the patterns' matchers accepts it, so the matcher of [] accepts nothing.
picomatch(pats, str) == \E i \in 1..Len(pats) : picomatchOne(pats[i], str)

\* line 101
isInclusiveMatch(targetPatterns, str) ==
    picomatch(SelectSeq(targetPatterns, LAMBDA p : ~startsWithBang(p)), str)

\* line 102
isExclusiveMatch(targetPatterns, str) ==
    picomatch(SelectSeq(targetPatterns, LAMBDA p : startsWithBang(p)), str)

\* globby(patterns, {cwd: dir}): the entries of dir that match a positive
\* pattern and no negated one.
globbyIn(pats, dir) ==
    SelectSeq(DirListing(dir),
              LAMBDA r : /\ \E i \in 1..Len(pats) :
                               ~pats[i].neg /\ GlobMatches(pats[i].glob, r)
                         /\ \A i \in 1..Len(pats) :
                               pats[i].neg => ~GlobMatches(pats[i].glob, r))

Range(xs) == { xs[i] : i \in 1..Len(xs) }

\* ts.map(t => path.resolve(t))  (lines 111, 131)
resolveAll(ts) == [i \in 1..Len(ts) |-> path_resolve(ts[i])]

\* ts.map(t => path.join(target, t))  (line 129)
joinAll(target, ts) == [i \in 1..Len(ts) |-> path_join(target, ts[i])]

\* A JavaScript value used as a condition: an array, even [], is truthy.
Truthy(answer) == answer.defined

RuleTarget(t, dir, paths) == [target |-> t, isDirectory |-> dir, paths |-> paths]

\* unpackOne without the test of line 116: the RuleTarget of a glob is
\* pushed also when no path is left.
unpackOne_KeepEmptyGlob(answer, target) ==
    LET targetPatterns == answer.pats
        keep(t) == isInclusiveMatch(targetPatterns, t) /\ isExclusiveMatch(targetPatterns, t)
    IN  IF hasMagic(target)
        THEN LET absoluteMatchingTargets == resolveAll(globbyTarget(target))
                 paths == SelectSeq(absoluteMatchingTargets, keep)
             IN  << RuleTarget(target, FALSE, paths) >>
        ELSE IF exists(target)
        THEN IF isDirectory(target)
             THEN IF Truthy(answer)
                  THEN LET relativePaths == globbyIn(targetPatterns, target)
                           joinedPaths == joinAll(target, relativePaths)
                           absolutePaths == resolveAll(joinedPaths)
                       IN  << RuleTarget(target, TRUE, absolutePaths) >>
                  ELSE << RuleTarget(target, TRUE, << "." >>) >>
             ELSE LET absolutePath == path_resolve(target)
                  IN  IF keep(absolutePath)
                      THEN << RuleTarget(target, FALSE, << absolutePath >>) >>
                      ELSE << >>
        ELSE << >>

\* unpackOne without the test of line 120: a target that is no glob and no
\* directory is taken for a file, whether it exists or not.
unpackOne_NoExistsTest(answer, target) ==
    LET targetPatterns == answer.pats
        keep(t) == isInclusiveMatch(targetPatterns, t) /\ isExclusiveMatch(targetPatterns, t)
    IN  IF hasMagic(target)
        THEN LET absoluteMatchingTargets == resolveAll(globbyTarget(target))
                 paths == SelectSeq(absoluteMatchingTargets, keep)
             IN  IF Len(paths) > 0 THEN << RuleTarget(target, FALSE, paths) >> ELSE << >>
        ELSE IF exists(target) /\ isDirectory(target)
        THEN IF Truthy(answer)
             THEN LET relativePaths == globbyIn(targetPatterns, target)
                      joinedPaths == joinAll(target, relativePaths)
                      absolutePaths == resolveAll(joinedPaths)
                  IN  << RuleTarget(target, TRUE, absolutePaths) >>
             ELSE << RuleTarget(target, TRUE, << "." >>) >>
        ELSE LET absolutePath == path_resolve(target)
             IN  IF keep(absolutePath)
                 THEN << RuleTarget(target, FALSE, << absolutePath >>) >>
                 ELSE << >>

\* The body of the loop of unpackTargets (lines 98-146) for one target: the
\* RuleTargets it pushes.
unpackOne(answer, target) ==
    LET targetPatterns == answer.pats
        keep(t) == isInclusiveMatch(targetPatterns, t) /\ isExclusiveMatch(targetPatterns, t)
    IN  IF hasMagic(target)
        THEN LET absoluteMatchingTargets == resolveAll(globbyTarget(target))
                 paths == SelectSeq(absoluteMatchingTargets, keep)
             IN  IF Len(paths) > 0 THEN << RuleTarget(target, FALSE, paths) >> ELSE << >>
        ELSE IF exists(target)
        THEN IF isDirectory(target)
             THEN IF Truthy(answer)
                  THEN LET relativePaths == globbyIn(targetPatterns, target)
                           joinedPaths == joinAll(target, relativePaths)
                           absolutePaths == resolveAll(joinedPaths)
                       IN  << RuleTarget(target, TRUE, absolutePaths) >>
                  ELSE << RuleTarget(target, TRUE, << "." >>) >>
             ELSE LET absolutePath == path_resolve(target)
                  IN  IF keep(absolutePath)
                      THEN << RuleTarget(target, FALSE, << absolutePath >>) >>
                      ELSE << >>
        ELSE << >>

RECURSIVE unpackFrom(_, _, _)
unpackFrom(answer, tgts, i) ==
    IF i > Len(tgts) THEN << >>
    ELSE unpackOne(answer, tgts[i]) \o unpackFrom(answer, tgts, i + 1)

\* unpackTargets(engine, targets) when nothing in it throws.
unpackTargets(answer, tgts) == unpackFrom(answer, tgts, 1)

(***************************************************************************)
(* The engines' runs, the recombinator, errors.                            *)
(***************************************************************************)
\* The RuleResults engine e's run resolves with.
EngineResults(e) ==
    IF getName(e) = "pmd" THEN << "pmd:violation1", "pmd:violation2" >>
    ELSE << "eslint:violation1" >>

\* The error engine e's run rejects with.
EngineError(e) ==
    IF getName(e) = "pmd" THEN [name |-> "Error", message |-> "pmd exited with code 1"]
    ELSE [name |-> "Error", message |-> "eslint crashed"]

\* The error RuleResultRecombinator.recombineAndReformatResults rejects with.
RecombinatorError == [name |-> "RecombinatorError", message |-> "unrecognized output format"]

\* The formats a caller may request.
Formats == {"table"}

\* The options map of the caller.
CallerOptions == [verbose |-> "true"]

\* The lists of targets a caller may pass.
TargetLists == UNION { [1..n -> TargetUniverse] : n \in 0..MaxTargets }

\* String(e) of an Error whose message is empty: its name.
ToStr(e) == e.name

\* WrapError with a message of its own: the caught error's message is lost.
WrapError_OwnMessage(e) == [name |-> "SfdxError", message |-> "rule execution failed"]

\* WrapError with the caught error's name where its message belongs.
WrapError_NameForMessage(e) == [name |-> "SfdxError", message |-> e.name]

\* new SfdxError(e.message || e)  (line 84)
WrapError(e) ==
    [name |-> "SfdxError", message |-> IF e.message # "" THEN e.message ELSE ToStr(e)]

\* TypeError: Cannot read property ... of undefined
TypeError(prop) == [name |-> "TypeError", message |-> prop]

\* assert(targetPatterns) failing (line 100)
AssertionError == [name |-> "AssertionError", message |-> "targetPatterns"]

NoError == [name |-> "", message |-> ""]

VARIABLES
    initialized,       \* this.initialized (FALSE: still undefined)
    logger,            \* this.logger is set
    fileHandler,       \* this.fileHandler is set
    initCalls,         \* how many init() calls stand at each place
    initAtEngine,      \* how many init() calls await each engine's init()
    engineInitCount,   \* how often each engine's init() was called
    catalogInitCount,  \* how often the catalog's init() was called
    initOverlap,       \* an init() call started while another was in progress
    runPc,             \* where the runRulesMatchingCriteria call stands
    filters, targets, format,   \* its arguments
    runIdx,            \* the engine the loop of lines 59-73 is at
    answered,          \* what each engine answered to getTargetPatterns
    unpacked,          \* engineTargets of each engine's iteration
    calls,             \* the arguments of each e.run call
    ps,                \* the promises pushed, as engines in push order
    promise,           \* the state and value of each engine's run promise
    settleOrder,       \* the engines in the order their runs settled
    firstRejected,     \* the engine whose rejection Promise.all took, or 0
    recombined,        \* the call of the recombinator
    outcome            \* what the call returned or threw

initVars == << initialized, logger, fileHandler, initCalls, initAtEngine,
               engineInitCount, catalogInitCount, initOverlap >>
runVars == << runPc, filters, targets, format, runIdx, answered, unpacked, calls,
              ps, promise, settleOrder, firstRejected, recombined, outcome >>
vars == << initialized, logger, fileHandler, initCalls, initAtEngine,
           engineInitCount, catalogInitCount, initOverlap,
           runPc, filters, targets, format, runIdx, answered, unpacked, calls,
           ps, promise, settleOrder, firstRejected, recombined, outcome >>

NoCall == [called |-> FALSE, groups |-> << >>, rules |-> << >>,
           targets |-> << >>, options |-> CallerOptions]
NoPromise == [state |-> "none", value |-> << >>, reason |-> NoError]
NotRecombined == [called |-> FALSE, results |-> << >>, format |-> ""]
NoOutcome == [kind |-> "none", report |-> NotRecombined, error |-> NoError]

InProgress == {"logger", "catalog"}
Finished == {"done", "returned", "failed"}

RECURSIVE SumTo(_, _)
SumTo(f, n) == IF n = 0 THEN 0 ELSE f[n] + SumTo(f, n - 1)

\* The init() calls that are suspended at an await.
CallsInProgress ==
    initCalls["logger"] + SumTo(initAtEngine, Len(engines)) + initCalls["catalog"]

\* The init() calls made so far.
CallsMade ==
    CallsInProgress + initCalls["done"] + initCalls["returned"] + initCalls["failed"]

\* The state after the constructor (lines 26-32): nothing is initialized.
Init ==
    /\ initialized = FALSE
    /\ logger = FALSE
    /\ fileHandler = FALSE
    /\ initCalls = [p \in InProgress \cup Finished |-> 0]
    /\ initAtEngine = [e \in EngineIds |-> 0]
    /\ engineInitCount = [e \in EngineIds |-> 0]
    /\ catalogInitCount = 0
    /\ initOverlap = FALSE
    /\ runPc = "idle"
    /\ filters = "none"
    /\ targets = << >>
    /\ format = ""
    /\ runIdx = 0
    /\ answered = [e \in EngineIds |-> NotAsked]
    /\ unpacked = [e \in EngineIds |-> << >>]
    /\ calls = [e \in EngineIds |-> NoCall]
    /\ ps = << >>
    /\ promise = [e \in EngineIds |-> NoPromise]
    /\ settleOrder = << >>
    /\ firstRejected = 0
    /\ recombined = NotRecombined
    /\ outcome = NoOutcome

(***************************************************************************)
(* init()  (lines 34-46).  The calls are not told apart: the state counts   *)
(* the calls standing at each place of the method.                         *)
(***************************************************************************)
\* InitCall without the guard of lines 35-37.
InitCall_NoGuard ==
    /\ CallsMade < MaxInitCalls
    /\ initOverlap' = (initOverlap \/ CallsInProgress > 0)
    /\ initCalls' = [initCalls EXCEPT !["logger"] = @ + 1]
    /\ UNCHANGED << initialized, logger, fileHandler, initAtEngine,
                    engineInitCount, catalogInitCount >>
    /\ UNCHANGED runVars

\* A call of init() up to its first await: the guard of lines 35-37 returns
\* at once, otherwise Logger.child is awaited.
InitCall ==
    /\ CallsMade < MaxInitCalls
    /\ initOverlap' = (initOverlap \/ CallsInProgress > 0)
    /\ initCalls' = IF initialized
                    THEN [initCalls EXCEPT !["returned"] = @ + 1]
                    ELSE [initCalls EXCEPT !["logger"] = @ + 1]
    /\ UNCHANGED << initialized, logger, fileHandler, initAtEngine,
                    engineInitCount, catalogInitCount >>
    /\ UNCHANGED runVars

\* Logger.child resolved for a call: lines 38-39, then the first engine's
\* init() is called and awaited (or the catalog's, without engines).
InitLoggerReady ==
    /\ initCalls["logger"] > 0
    /\ logger' = TRUE
    /\ fileHandler' = TRUE
    /\ IF Len(engines) > 0
       THEN /\ engineInitCount' = [engineInitCount EXCEPT ![1] = @ + 1]
            /\ initAtEngine' = [initAtEngine EXCEPT ![1] = @ + 1]
            /\ initCalls' = [initCalls EXCEPT !["logger"] = @ - 1]
            /\ UNCHANGED catalogInitCount
       ELSE /\ catalogInitCount' = catalogInitCount + 1
            /\ initCalls' = [initCalls EXCEPT !["logger"] = @ - 1, !["catalog"] = @ + 1]
            /\ UNCHANGED << engineInitCount, initAtEngine >>
    /\ UNCHANGED << initialized, initOverlap >>
    /\ UNCHANGED runVars

\* The init() of engine e that a call awaits settled (lines 40-42): a
\* rejection ends the call with that error; otherwise the next engine's
\* init(), or after the last engine the catalog's (line 43), is called and
\* awaited.
InitEngineDone(e) ==
    /\ initAtEngine[e] > 0
    /\ \E ok \in BOOLEAN :
         IF ~ok
         THEN /\ initAtEngine' = [initAtEngine EXCEPT ![e] = @ - 1]
              /\ initCalls' = [initCalls EXCEPT !["failed"] = @ + 1]
              /\ UNCHANGED << engineInitCount, catalogInitCount >>
         ELSE IF e < Len(engines)
         THEN /\ engineInitCount' = [engineInitCount EXCEPT ![e + 1] = @ + 1]
              /\ initAtEngine' = [initAtEngine EXCEPT ![e] = @ - 1, ![e + 1] = @ + 1]
              /\ UNCHANGED << initCalls, catalogInitCount >>
         ELSE /\ catalogInitCount' = catalogInitCount + 1
              /\ initAtEngine' = [initAtEngine EXCEPT ![e] = @ - 1]
              /\ initCalls' = [initCalls EXCEPT !["catalog"] = @ + 1]
              /\ UNCHANGED engineInitCount
    /\ UNCHANGED << initialized, logger, fileHandler, initOverlap >>
    /\ UNCHANGED runVars

\* InitCatalogDone with line 45 in a finally: the flag is set also when the
\* catalog's init() failed.
InitCatalogDone_FlagAnyway ==
    /\ initCalls["catalog"] > 0
    /\ \E ok \in BOOLEAN :
         /\ initialized' = TRUE
         /\ initCalls' = IF ok
                         THEN [initCalls EXCEPT !["catalog"] = @ - 1, !["done"] = @ + 1]
                         ELSE [initCalls EXCEPT !["catalog"] = @ - 1, !["failed"] = @ + 1]
    /\ UNCHANGED << logger, fileHandler, initAtEngine, engineInitCount,
                    catalogInitCount, initOverlap >>
    /\ UNCHANGED runVars

\* The catalog.init() that a call awaits settled (lines 43-45).
InitCatalogDone ==
    /\ initCalls["catalog"] > 0
    /\ \E ok \in BOOLEAN :
         IF ok
         THEN /\ initialized' = TRUE
              /\ initCalls' = [initCalls EXCEPT !["catalog"] = @ - 1, !["done"] = @ + 1]
         ELSE /\ initCalls' = [initCalls EXCEPT !["catalog"] = @ - 1, !["failed"] = @ + 1]
              /\ UNCHANGED initialized
    /\ UNCHANGED << logger, fileHandler, initAtEngine, engineInitCount,
                    catalogInitCount, initOverlap >>
    /\ UNCHANGED runVars

(***************************************************************************)
(* runRulesMatchingCriteria()  (lines 52-86)                               *)
(***************************************************************************)
\* filterByEngine without the test: every engine gets the whole selection.
filterByEngine_NoFilter(xs, e) == xs

\* xs.filter(x => x.engine === e.getName())  (lines 62-63)
filterByEngine(xs, e) == SelectSeq(xs, LAMBDA x : x.engine = getName(e))

\* isEligible with the test on the rules left out.
isEligible_TargetsOnly(engineRules, engineTargets) == Len(engineTargets) > 0

\* The condition of line 66.
isEligible(engineRules, engineTargets) ==
    Len(engineRules) > 0 /\ Len(engineTargets) > 0

\* The lowest-numbered promise of ps that is rejected, or 0: the rejection a
\* Promise.all called now on ps takes.
LowestRejected(prom, pushed) ==
    LET rej == { i \in 1..Len(pushed) : prom[pushed[i]].state = "rejected" }
    IN  IF rej = {} THEN 0 ELSE pushed[CHOOSE i \in rej : \A j \in rej : i <= j]

\* PromiseAll as Promise.allSettled would do it: once every promise is settled,
\* the values of the fulfilled ones, the rejected ones left out.
PromiseAll_SkipRejected(pushed, prom, rejected) ==
    IF \A i \in 1..Len(pushed) : prom[pushed[i]].state \in {"fulfilled", "rejected"}
    THEN LET ok == SelectSeq(pushed, LAMBDA e : prom[e].state = "fulfilled")
         IN  [state |-> "fulfilled", value |-> [i \in 1..Len(ok) |-> prom[ok[i]].value],
              reason |-> NoError]
    ELSE [state |-> "pending", value |-> << >>, reason |-> NoError]

\* PromiseAll as a race: fulfilled as soon as one promise is, with the values
\* at hand.
PromiseAll_FirstFulfilled(pushed, prom, rejected) ==
    IF rejected # 0
    THEN [state |-> "rejected", value |-> << >>, reason |-> prom[rejected].reason]
    ELSE IF \E i \in 1..Len(pushed) : prom[pushed[i]].state = "fulfilled"
    THEN [state |-> "fulfilled", value |-> [i \in 1..Len(pushed) |-> prom[pushed[i]].value],
          reason |-> NoError]
    ELSE [state |-> "pending", value |-> << >>, reason |-> NoError]

\* PromiseAll that takes an empty list of promises for a failure.
PromiseAll_RejectsEmpty(pushed, prom, rejected) ==
    IF Len(pushed) = 0
    THEN [state |-> "rejected", value |-> << >>,
          reason |-> [name |-> "Error", message |-> "no engine is eligible"]]
    ELSE IF rejected # 0
    THEN [state |-> "rejected", value |-> << >>, reason |-> prom[rejected].reason]
    ELSE IF \A i \in 1..Len(pushed) : prom[pushed[i]].state = "fulfilled"
    THEN [state |-> "fulfilled", value |-> [i \in 1..Len(pushed) |-> prom[pushed[i]].value],
          reason |-> NoError]
    ELSE [state |-> "pending", value |-> << >>, reason |-> NoError]

\* Promise.all(ps) (line 78): rejected with the first rejection it took,
\* fulfilled with the values in the order of ps once every promise is
\* fulfilled, pending otherwise.
PromiseAll(pushed, prom, rejected) ==
    IF rejected # 0
    THEN [state |-> "rejected", value |-> << >>, reason |-> prom[rejected].reason]
    ELSE IF \A i \in 1..Len(pushed) : prom[pushed[i]].state = "fulfilled"
    THEN [state |-> "fulfilled", value |-> [i \in 1..Len(pushed) |-> prom[pushed[i]].value],
          reason |-> NoError]
    ELSE [state |-> "pending", value |-> << >>, reason |-> NoError]

\* psResults.forEach(r => results = results.concat(r))  (line 79)
RECURSIVE concatFrom(_, _)
concatFrom(psResults, i) ==
    IF i > Len(psResults) THEN << >>
    ELSE psResults[i] \o concatFrom(psResults, i + 1)

\* concatResults with each list put in front: results = r.concat(results).
RECURSIVE concatResults_Prepend(_)
concatResults_Prepend(psResults) ==
    IF Len(psResults) = 0 THEN << >>
    ELSE concatResults_Prepend(Tail(psResults)) \o Head(psResults)

concatResults(psResults) == concatFrom(psResults, 1)

Threw(e) == [kind |-> "error", report |-> NotRecombined, error |-> e]

\* TraceThrows for a call that tolerates a missing logger (this.logger?.trace).
TraceThrows_Never == FALSE

\* this.logger.trace(...) of line 65 throws a TypeError: this.logger is unset.
TraceThrows == ~logger

\* The call, lines 53-58, up to the await of the first iteration (line 64).
RunCall ==
    /\ runPc = "idle"
    /\ \E f \in Filters, tgts \in TargetLists, fmt \in Formats :
         /\ filters' = f
         /\ targets' = tgts
         /\ format' = fmt
    /\ runIdx' = 1
    /\ runPc' = IF Len(engines) > 0 THEN "loop" ELSE "await"
    /\ UNCHANGED << answered, unpacked, calls, ps, promise, settleOrder,
                    firstRejected, recombined, outcome >>
    /\ UNCHANGED initVars

\* One iteration of the loop of lines 59-73 for engine runIdx: the targets
\* are unpacked (an undefined answer fails the assertion of line 100, a
\* missing fileHandler fails line 104), line 65 needs the logger, and the
\* engine's run is called when it is eligible.  After the last engine,
\* Promise.all is called (line 78) and awaited.
RunEngineIter ==
    /\ runPc = "loop"
    /\ LET e == runIdx
           engineGroups == filterByEngine(getRuleGroupsMatchingFilters(filters), e)
           engineRules == filterByEngine(getRulesMatchingFilters(filters), e)
       IN  \E answer \in TargetPatternAnswers(e) :
             IF Len(targets) > 0 /\ ~answer.defined
             THEN /\ runPc' = "threw"
                  /\ outcome' = Threw(AssertionError)
                  /\ answered' = [answered EXCEPT ![e] = answer]
                  /\ UNCHANGED << runIdx, unpacked, calls, ps, promise, firstRejected >>
             ELSE IF Len(targets) > 0 /\ ~fileHandler
             THEN /\ runPc' = "threw"
                  /\ outcome' = Threw(TypeError("exists"))
                  /\ answered' = [answered EXCEPT ![e] = answer]
                  /\ UNCHANGED << runIdx, unpacked, calls, ps, promise, firstRejected >>
             ELSE LET engineTargets == unpackTargets(answer, targets)
                      pushed == IF isEligible(engineRules, engineTargets)
                                THEN Append(ps, e) ELSE ps
                      started == IF isEligible(engineRules, engineTargets)
                                 THEN [promise EXCEPT ![e] =
                                          [state |-> "pending", value |-> << >>,
                                           reason |-> NoError]]
                                 ELSE promise
                  IN  /\ answered' = [answered EXCEPT ![e] =
                                         IF Len(targets) > 0 THEN answer ELSE NotAsked]
                      /\ unpacked' = [unpacked EXCEPT ![e] = engineTargets]
                      /\ IF TraceThrows
                         THEN /\ runPc' = "threw"
                              /\ outcome' = Threw(TypeError("trace"))
                              /\ UNCHANGED << runIdx, calls, ps, promise, firstRejected >>
                         ELSE /\ calls' = IF isEligible(engineRules, engineTargets)
                                          THEN [calls EXCEPT ![e] =
                                                   [called |-> TRUE,
                                                    groups |-> engineGroups,
                                                    rules |-> engineRules,
                                                    targets |-> engineTargets,
                                                    options |-> CallerOptions]]
                                          ELSE calls
                              /\ ps' = pushed
                              /\ promise' = started
                              /\ IF e < Len(engines)
                                 THEN /\ runIdx' = e + 1
                                      /\ UNCHANGED << runPc, firstRejected >>
                                 ELSE /\ runIdx' = e + 1
                                      /\ runPc' = "await"
                                      /\ firstRejected' = LowestRejected(started, pushed)
                              /\ UNCHANGED outcome
    /\ UNCHANGED << filters, targets, format, settleOrder, recombined >>
    /\ UNCHANGED initVars

\* The run of engine e settles: it resolves with its results or rejects.
\* A Promise.all that is awaited and has taken no rejection takes this one.
EngineRunSettle(e) ==
    /\ promise[e].state = "pending"
    /\ \E ok \in BOOLEAN :
         /\ promise' = [promise EXCEPT ![e] =
                IF ok THEN [state |-> "fulfilled", value |-> EngineResults(e),
                            reason |-> NoError]
                ELSE [state |-> "rejected", value |-> << >>, reason |-> EngineError(e)]]
         /\ firstRejected' = IF ~ok /\ runPc = "await" /\ firstRejected = 0
                             THEN e ELSE firstRejected
    /\ settleOrder' = Append(settleOrder, e)
    /\ UNCHANGED << runPc, filters, targets, format, runIdx, answered, unpacked,
                    calls, ps, recombined, outcome >>
    /\ UNCHANGED initVars

\* The await of line 78 resumes.  Fulfilled: lines 79-82, the results are
\* concatenated and the recombinator is called and awaited.  Rejected: the
\* catch of lines 83-85.
RunAwaitResume ==
    /\ runPc = "await"
    /\ LET all == PromiseAll(ps, promise, firstRejected)
       IN  /\ all.state # "pending"
           /\ IF all.state = "fulfilled"
              THEN /\ recombined' = [called |-> TRUE,
                                     results |-> concatResults(all.value),
                                     format |-> format]
                   /\ runPc' = "recombine"
                   /\ UNCHANGED outcome
              ELSE /\ outcome' = Threw(WrapError(all.reason))
                   /\ runPc' = "threw"
                   /\ UNCHANGED recombined
    /\ UNCHANGED << filters, targets, format, runIdx, answered, unpacked, calls,
                    ps, promise, settleOrder, firstRejected >>
    /\ UNCHANGED initVars

\* Whether the recombinator may resolve (TRUE) or reject (FALSE) for a result
\* list: it accepts an empty list and gives the empty report.
RecombinatorOutcomes(results) == IF results = << >> THEN {TRUE} ELSE BOOLEAN

\* The recombinator settles (line 82): its output is returned, or its error
\* is caught at lines 83-85.
RecombineSettle ==
    /\ runPc = "recombine"
    /\ \E ok \in RecombinatorOutcomes(recombined.results) :
         IF ok
         THEN /\ outcome' = [kind |-> "report", report |-> recombined, error |-> NoError]
              /\ runPc' = "returned"
         ELSE /\ outcome' = Threw(WrapError(RecombinatorError))
              /\ runPc' = "threw"
    /\ UNCHANGED << filters, targets, format, runIdx, answered, unpacked, calls,
                    ps, promise, settleOrder, firstRejected, recombined >>
    /\ UNCHANGED initVars

Next ==
    \/ InitCall
    \/ InitLoggerReady
    \/ \E e \in EngineIds : InitEngineDone(e)
    \/ InitCatalogDone
    \/ RunCall
    \/ RunEngineIter
    \/ \E e \in EngineIds : EngineRunSettle(e)
    \/ RunAwaitResume
    \/ RecombineSettle

Spec == Init /\ [][Next]_vars

(***************************************************************************)
(* Vocabulary of the properties.                                           *)
(***************************************************************************)
\* unpackTargets returned for engine e in this call.
Resolved(e) ==
    \/ runIdx > e
    \/ runIdx = e /\ runPc = "threw" /\ outcome.error = TypeError("trace")

\* The call has ended, with a report or with an error.
Completed == runPc \in {"returned", "threw"}

\* The engines whose run was called.
Dispatched == { e \in EngineIds : calls[e].called }

\* The engine's patterns hold no "!" pattern.
NoExclusion(pats) == \A i \in 1..Len(pats) : ~pats[i].neg

RECURSIVE CountIn(_, _)
CountIn(x, xs) ==
    IF Len(xs) = 0 THEN 0
    ELSE (IF Head(xs) = x THEN 1 ELSE 0) + CountIn(x, Tail(xs))

\* How often the path occurs in the paths of the RuleTargets.
RECURSIVE Occurrences(_, _)
Occurrences(path, ruleTargets) ==
    IF Len(ruleTargets) = 0 THEN 0
    ELSE CountIn(path, Head(ruleTargets).paths) + Occurrences(path, Tail(ruleTargets))

\* The target is an existing plain file.
PlainFile(t) == ~hasMagic(t) /\ exists(t) /\ ~isDirectory(t)

\* The target is an existing directory.
Directory(t) == ~hasMagic(t) /\ exists(t) /\ isDirectory(t)

\* The results of the dispatched engines, in registration order.
RECURSIVE RegistrationOrderResults(_)
RegistrationOrderResults(e) ==
    IF e > Len(engines) THEN << >>
    ELSE (IF calls[e].called THEN promise[e].value ELSE << >>)
         \o RegistrationOrderResults(e + 1)

(***************************************************************************)
(* The properties.                                                         *)
(***************************************************************************)
\* C1: all-or-nothing.  Once the run of a dispatched engine has failed, the
\* recombinator has not been and is not called, no report is returned, and
\* the call, when it ends, ends with an error.
C1_AllOrNothing ==
    (\E e \in Dispatched : promise[e].state = "rejected")
        => /\ ~recombined.called
           /\ outcome.kind # "report"
           /\ runPc \notin {"recombine", "returned"}
           /\ Completed => outcome.kind = "error"

\* C1 witness: the call failed although one dispatched engine succeeded.
C1_Witness ==
    /\ runPc = "threw"
    /\ outcome.error.name = "SfdxError"
    /\ \E e \in Dispatched : promise[e].state = "fulfilled"
    /\ \E e \in Dispatched : promise[e].state = "rejected"
    /\ ~recombined.called

\* C2: when every dispatched engine succeeded, the list handed to the
\* recombinator is the engines' result lists concatenated in registration
\* order, whatever the order in which the runs settled.
C2_RegistrationOrder ==
    recombined.called => recombined.results = RegistrationOrderResults(1)

\* C2 witness: two engines were dispatched, the second settled first, and
\* the recombinator was called.
C2_Witness ==
    /\ recombined.called
    /\ Len(ps) = 2
    /\ settleOrder = << 2, 1 >>

\* C3: an engine is dispatched only if one of its resolved RuleTargets has a
\* non-empty paths list.
C3_DispatchedHasPaths ==
    \A e \in EngineIds :
        calls[e].called =>
            \E i \in 1..Len(calls[e].targets) : Len(calls[e].targets[i].paths) > 0

\* C4: an engine none of whose rules is in the filtered rule list is never
\* dispatched, whatever its resolved targets and rule-groups.
C4_NoRulesNoDispatch ==
    \A e \in EngineIds :
        (\A i \in 1..Len(getRulesMatchingFilters(filters)) :
              getRulesMatchingFilters(filters)[i].engine # getName(e))
            => ~calls[e].called /\ promise[e].state = "none" /\ e \notin Range(ps)

\* C4 witness: an engine with resolved targets and matching rule-groups but
\* no matching rule was passed over.
C4_Witness ==
    \E e \in EngineIds :
        /\ runIdx > e
        /\ \A i \in 1..Len(getRulesMatchingFilters(filters)) :
              getRulesMatchingFilters(filters)[i].engine # getName(e)
        /\ \E i \in 1..Len(getRuleGroupsMatchingFilters(filters)) :
              getRuleGroupsMatchingFilters(filters)[i].engine = getName(e)
        /\ Len(unpacked[e]) > 0
        /\ ~calls[e].called

\* C5: when init() calls are made one after the other and none fails, every
\* call after the first does no initialization work: each engine's init and
\* the catalog's init have been executed exactly once in total.
C5_InitOnce ==
    (initialized /\ ~initOverlap /\ initCalls["failed"] = 0)
        => /\ \A e \in EngineIds : engineInitCount[e] = 1
           /\ catalogInitCount = 1
           /\ initCalls["done"] = 1

\* C5 witness: a second init() call was made after the first completed, and
\* returned.
C5_Witness ==
    /\ initialized
    /\ ~initOverlap
    /\ initCalls["failed"] = 0
    /\ initCalls["returned"] >= 1

\* C6 (as claimed): the call, once past its loop, does not end, with a report
\* or with an error, before every engine run it dispatched has completed.
C6_EndsAfterAllRuns ==
    (runIdx > Len(engines) /\ Completed)
        => \A e \in Dispatched : promise[e].state \in {"fulfilled", "rejected"}

\* C6 (amended): the call does not hand results to the recombinator, and does
\* not end with a report, before every engine run it dispatched has
\* completed successfully.  (It ends with an error as soon as one dispatched
\* run fails, other runs still pending.)
C6_ReportAfterAllRuns ==
    (recombined.called \/ outcome.kind = "report" \/ runPc \in {"recombine", "returned"})
        => \A e \in Dispatched : promise[e].state = "fulfilled"

\* C6 witness: the call ended with the error of a failed engine while
\* another dispatched engine's run was still pending.
C6_Witness ==
    /\ runPc = "threw"
    /\ \E e \in Dispatched : promise[e].state = "pending"
    /\ \E e \in Dispatched :
          promise[e].state = "rejected" /\ outcome.error = WrapError(EngineError(e))

\* C7: each plain-file target that exists and passes the engine's inclusive
\* and exclusive matchers has its absolute path exactly once across the paths
\* of the RuleTargets resolved for the engine.
C7_FileExactlyOnce ==
    \A e \in EngineIds :
        (Resolved(e) /\ answered[e].defined) =>
            \A i \in 1..Len(targets) :
                (/\ PlainFile(targets[i])
                 /\ isInclusiveMatch(answered[e].pats, path_resolve(targets[i]))
                 /\ isExclusiveMatch(answered[e].pats, path_resolve(targets[i])))
                    => Occurrences(path_resolve(targets[i]), unpacked[e]) = 1

\* C8: every RuleTarget returned by unpackTargets has a non-empty paths list.
C8_PathsNonEmpty ==
    \A e \in EngineIds :
        Resolved(e) =>
            \A i \in 1..Len(unpacked[e]) : Len(unpacked[e][i].paths) > 0

\* C9: when the engine's patterns hold no "!" pattern, every plain-file
\* target and every glob-expanded path that matches an inclusion pattern is
\* kept in the engine's RuleTargets.
C9_NoExclusionKeeps ==
    \A e \in EngineIds :
        (Resolved(e) /\ answered[e].defined /\ NoExclusion(answered[e].pats)) =>
            \A i \in 1..Len(targets) :
                /\ (PlainFile(targets[i])
                      /\ isInclusiveMatch(answered[e].pats, path_resolve(targets[i])))
                    => Occurrences(path_resolve(targets[i]), unpacked[e]) >= 1
                /\ hasMagic(targets[i]) =>
                    \A j \in 1..Len(globbyTarget(targets[i])) :
                        isInclusiveMatch(answered[e].pats,
                                         path_resolve(globbyTarget(targets[i])[j]))
                            => Occurrences(path_resolve(globbyTarget(targets[i])[j]),
                                           unpacked[e]) >= 1

\* C10: for a directory target, when the engine answers an empty list of
\* patterns, unpackTargets keeps one RuleTarget for it, marked isDirectory,
\* whose paths is the one placeholder path ".".
C10_DirectoryPlaceholder ==
    \A e \in EngineIds :
        (Resolved(e) /\ answered[e].defined /\ answered[e].pats = << >>) =>
            \A i \in 1..Len(targets) :
                Directory(targets[i]) =>
                    /\ CountIn(RuleTarget(targets[i], TRUE, << "." >>), unpacked[e])
                          = CountIn(targets[i], targets)
                    /\ \A j \in 1..Len(unpacked[e]) :
                          unpacked[e][j].target = targets[i]
                              => unpacked[e][j] = RuleTarget(targets[i], TRUE, << "." >>)

\* The iteration of engine e got its patterns and a file handler: nothing in
\* its unpackTargets call could throw.
Unpackable(e) ==
    /\ answered[e].asked
    /\ answered[e].defined
    /\ outcome.error # TypeError("exists")

\* The paths of the glob target left by the engine's two matchers.
FilteredExpansion(pats, t) ==
    SelectSeq(resolveAll(globbyTarget(t)),
              LAMBDA q : isInclusiveMatch(pats, q) /\ isExclusiveMatch(pats, q))

\* The RuleTargets that were made for target t.
RuleTargetsOf(ruleTargets, t) == SelectSeq(ruleTargets, LAMBDA rt : rt.target = t)

\* The target is no glob and does not exist.
Missing(t) == ~hasMagic(t) /\ ~exists(t)

\* C11: a glob target whose expansion, filtered by the engine's inclusive and
\* exclusive matchers, holds no path gives no RuleTarget for the engine, and
\* unpackTargets returns without an error.
C11_EmptyGlobDropped ==
    \A e \in EngineIds :
        Unpackable(e) =>
            /\ Resolved(e)
            /\ \A i \in 1..Len(targets) :
                  (hasMagic(targets[i]) /\ FilteredExpansion(answered[e].pats, targets[i]) = << >>)
                      => RuleTargetsOf(unpacked[e], targets[i]) = << >>

\* C11 witness: an engine resolved a list that holds a glob whose filtered
\* expansion is empty, next to a target that gave a RuleTarget.
C11_Witness ==
    \E e \in EngineIds :
        /\ Unpackable(e)
        /\ Resolved(e)
        /\ Len(unpacked[e]) > 0
        /\ \E i \in 1..Len(targets) :
              /\ hasMagic(targets[i])
              /\ FilteredExpansion(answered[e].pats, targets[i]) = << >>
              /\ RuleTargetsOf(unpacked[e], targets[i]) = << >>

\* C12: a target that is no glob and does not exist gives no RuleTarget for
\* any engine and no error: unpackTargets returns what it returns for the
\* list without that target, and the call goes on.
C12_MissingSkipped ==
    \A e \in EngineIds :
        Unpackable(e) =>
            /\ Resolved(e)
            /\ \A i \in 1..Len(targets) :
                  Missing(targets[i]) => RuleTargetsOf(unpacked[e], targets[i]) = << >>
            /\ (\E i \in 1..Len(targets) : Missing(targets[i])) =>
                  unpacked[e] =
                      unpackTargets(answered[e], SelectSeq(targets, LAMBDA t : ~Missing(t)))

\* C12 witness: the list held a missing target and an engine was dispatched
\* with the RuleTargets of the other target.
C12_Witness ==
    \E e \in EngineIds :
        /\ calls[e].called
        /\ \E i \in 1..Len(targets) : Missing(targets[i])
        /\ Len(unpacked[e]) > 0

\* The recombinator was called and its promise rejected.
RecombinatorFailed == recombined.called /\ runPc = "threw"

\* C13 (as claimed): an error of the recombinator reaches the caller as the
\* same error, unchanged and unwrapped.
C13_RecombinatorErrorAsIs ==
    RecombinatorFailed => outcome.error = RecombinatorError

\* C13 (amended): an error of the recombinator reaches the caller wrapped: the
\* call fails with a new SfdxError that carries the recombinator error's
\* message.
C13_RecombinatorErrorWrapped ==
    RecombinatorFailed =>
        /\ outcome.kind = "error"
        /\ outcome.error.name = "SfdxError"
        /\ outcome.error.message = RecombinatorError.message

\* C13 witness: every dispatched engine succeeded, the recombinator failed
\* and the call ended with an error.
C13_Witness ==
    /\ RecombinatorFailed
    /\ Dispatched # {}
    /\ \A e \in Dispatched : promise[e].state = "fulfilled"

\* C14: when the run of a dispatched engine has failed and the call, past its
\* loop, ends, it ends with one SfdxError whose message is the message of the
\* error of a dispatched engine that failed, also when several failed.
C14_EngineMessageKept ==
    (runIdx > Len(engines) /\ Completed
        /\ \E e \in Dispatched : promise[e].state = "rejected")
        => /\ outcome.kind = "error"
           /\ outcome.error.name = "SfdxError"
           /\ \E e \in Dispatched :
                 /\ promise[e].state = "rejected"
                 /\ outcome.error.message = promise[e].reason.message

\* C14 witness: two dispatched engines failed and the call ended with the
\* message of one of them.
C14_Witness ==
    /\ runPc = "threw"
    /\ Cardinality({ e \in Dispatched : promise[e].state = "rejected" }) = 2
    /\ \E e \in Dispatched : outcome.error.message = EngineError(e).message

\* C15: when an engine's init or the catalog's init fails, the init() call
\* fails there: the step that fails the call starts no further engine or
\* catalog initialization, leaves the initialized flag as it was and ends the
\* call; the flag is set only by a call that completed every initialization.
C15_InitFailFast ==
    /\ [](initialized => initCalls["done"] >= 1)
    /\ [][ initCalls'["failed"] > initCalls["failed"]
             => /\ initialized' = initialized
                /\ engineInitCount' = engineInitCount
                /\ catalogInitCount' = catalogInitCount
                /\ CallsInProgress' = CallsInProgress - 1 ]_vars

\* C15 witness: the only init() call failed at the first engine's init: the
\* second engine and the catalog were never initialized and the flag is unset.
C15_Witness ==
    /\ CallsMade = 1
    /\ initCalls["failed"] = 1
    /\ engineInitCount[1] = 1
    /\ \A e \in EngineIds : e > 1 => engineInitCount[e] = 0
    /\ catalogInitCount = 0
    /\ ~initialized

\* C16: however two init() calls interleave, each engine's init and the
\* catalog's init are executed at most once (stated for calls none of whose
\* initializations fails).
C16_InitAtMostOnce ==
    initCalls["failed"] = 0
        => /\ \A e \in EngineIds : engineInitCount[e] <= 1
           /\ catalogInitCount <= 1

\* The paths a plain-file or glob target of the list stands for.
TargetPaths(t) ==
    IF hasMagic(t) THEN Range(resolveAll(globbyTarget(t)))
    ELSE IF PlainFile(t) THEN {path_resolve(t)}
    ELSE {}

\* The "!" patterns among the patterns.
Exclusions(pats) == SelectSeq(pats, LAMBDA p : p.neg)

\* C17: when an engine declares several "!" patterns, a plain-file or
\* glob-expanded path that one of them excludes is in none of the engine's
\* RuleTargets.
C17_AnyExclusionExcludes ==
    \A e \in EngineIds :
        (Resolved(e) /\ answered[e].defined /\ Len(Exclusions(answered[e].pats)) >= 2) =>
            \A i \in 1..Len(targets) :
                \A q \in TargetPaths(targets[i]) :
                    (\E j \in 1..Len(answered[e].pats) :
                          answered[e].pats[j].neg /\ GlobMatches(answered[e].pats[j].glob, q))
                        => Occurrences(q, unpacked[e]) = 0

\* C18: a dispatched engine is called with the rule-groups and the rules of
\* the filtered selection whose engine is the engine's name, and no other,
\* with the RuleTargets resolved for it and with the caller's options.
C18_EngineReceivesItsOwn ==
    \A e \in EngineIds :
        calls[e].called =>
            /\ calls[e].rules = SelectSeq(getRulesMatchingFilters(filters),
                                          LAMBDA r : r.engine = engines[e].name)
            /\ calls[e].groups = SelectSeq(getRuleGroupsMatchingFilters(filters),
                                           LAMBDA g : g.engine = engines[e].name)
            /\ \A i \in 1..Len(calls[e].rules) : calls[e].rules[i].engine = engines[e].name
            /\ \A i \in 1..Len(calls[e].groups) : calls[e].groups[i].engine = engines[e].name
            /\ calls[e].targets = unpacked[e]
            /\ calls[e].options = CallerOptions

\* C18 witness: the selection holds rules and groups of two engines and an
\* engine was dispatched with its one rule and its one group.
C18_Witness ==
    \E e \in EngineIds :
        /\ calls[e].called
        /\ Len(getRulesMatchingFilters(filters)) = 2
        /\ Len(getRuleGroupsMatchingFilters(filters)) = 2
        /\ Len(calls[e].rules) = 1
        /\ Len(calls[e].groups) = 1

\* The loop has ended and pushed no promise: no engine was eligible.
NoneEligible == runIdx > Len(engines) /\ Len(ps) = 0

\* C19: when no engine is eligible the call does not fail: the recombinator
\* is called with the empty result list and the requested format, and the
\* call returns the recombinator's output.
C19_NoneEligibleEmptyReport ==
    NoneEligible =>
        /\ runPc \in {"await", "recombine", "returned"}
        /\ outcome.kind # "error"
        /\ runPc \in {"recombine", "returned"} =>
              recombined = [called |-> TRUE, results |-> << >>, format |-> format]
        /\ runPc = "returned" =>
              outcome = [kind |-> "report", report |-> recombined, error |-> NoError]

\* C19 witness: the selection held rules of an engine, no target resolved for
\* it, no engine was dispatched, and the call returned the empty report.
C19_Witness ==
    /\ NoneEligible
    /\ runPc = "returned"
    /\ Len(getRulesMatchingFilters(filters)) > 0
    /\ Len(targets) > 0
    /\ Dispatched = {}
    /\ outcome.report.results = << >>

\* C20 (as claimed): as long as no init() call has completed, a call of
\* runRulesMatchingCriteria dispatches no engine, returns no report and, when
\* it ends, ends in an error.
C20_UninitializedRunFails ==
    (runPc # "idle" /\ ~initialized) =>
        /\ Dispatched = {}
        /\ outcome.kind # "report"
        /\ Completed => outcome.kind = "error"

\* C20 (amended): as long as no init() call has got past its first await
\* (this.logger and this.fileHandler are unset), a call of
\* runRulesMatchingCriteria stays in the first iteration of its loop or has
\* ended there in an error: no engine is dispatched, the recombinator is not
\* called, no report is returned.
C20_NoLoggerRunFails ==
    (runPc # "idle" /\ ~logger) =>
        /\ runPc \in {"loop", "threw"}
        /\ runIdx = 1
        /\ Dispatched = {}
        /\ ps = << >>
        /\ ~recombined.called
        /\ outcome.kind # "report"
        /\ runPc = "threw" =>
              outcome.kind = "error"
                  /\ outcome.error.name \in {"TypeError", "AssertionError"}

\* C20 witness: the call was made before any init() call set the logger and
\* ended in a TypeError.
C20_Witness ==
    /\ ~logger
    /\ ~initialized
    /\ runPc = "threw"
    /\ outcome.error.name = "TypeError"

====
